---- MODULE Spec2Model ----
(***************************************************************************)
(* A model of freelist-alloc (src/freelist-alloc/src/lib.rs): the global   *)
(* allocator FreelistAllocator, its lazily built CONTEXT, the table of     *)
(* mapped regions and the region headers / allocation tags it writes into  *)
(* the mapped memory.                                                      *)
(*                                                                         *)
(* Memory is modelled word by word (8-byte words): mem maps every mapped,  *)
(* 8-aligned address to the word stored there.  A word is a number, or one *)
(* of the byte strings the code stores (REGION_START, TAG_END, REG_END),   *)
(* which are kept as negative codes and turned into numbers by AsUsize     *)
(* where the code reads them back through a usize or pointer field.        *)
(* Addresses are AddrBits wide instead of 64, pages and the 16 MiB floor   *)
(* are scaled down; the struct sizes and alignments are those of the code. *)
(***************************************************************************)
EXTENDS Integers, Naturals, Sequences, FiniteSets, TLC

(* ---------------------------- bounds ---------------------------------- *)
AddrBits == 16        \* width of usize / pointers (64 in the build)
PageShift == 6        \* sysconf(_SC_PAGESIZE) = 2^PageShift
FloorShift == 7       \* the "16 MiB" floor of alloc_size = 2^FloorShift
NThreads == 2         \* threads calling alloc / dealloc
MaxCalls == 3         \* alloc calls in a behaviour
MaxPrints == 2        \* dealloc calls (lines printed) in a behaviour
MaxConcCalls == 2     \* alloc calls in a behaviour of concurrent threads

(* ------------------------ program constants --------------------------- *)
SizeOfRegionHeader == 32
AlignOfRegionHeader == 8
SizeOfAllocationTag == 32
AlignOfAllocationTag == 8
SizeOfMappedMemory == 32
SizeOfRegEnd == 6
WordBytes == 8

REGION_START == 0 - 1     \* b"REGSTART"
TAG_END == 0 - 2          \* b"\0\0TAGEND"
REG_END == 0 - 3          \* a word whose bytes 2..7 are b"REGEND"
TAG_START == 0 - 4        \* b"TAGSTART" (never written by the code)

RECURSIVE Pow2(_)
Pow2(n) == IF n = 0 THEN 1 ELSE 2 * Pow2(n - 1)

USIZE == Pow2(AddrBits)
MAP_FAILED == USIZE - 1
NULL == 0

\* The byte strings read back as little-endian usize.  Their top byte is
\* 'T' (0x54) resp. 'D' (0x44); TAG_END has its two low bytes zero.
REGION_START_USIZE == 21 * Pow2(AddrBits - 6) + 5
TAG_END_USIZE == 17 * Pow2(AddrBits - 6)
REG_END_USIZE == 17 * Pow2(AddrBits - 6) + Pow2(AddrBits - 8)
TAG_START_USIZE == 21 * Pow2(AddrBits - 6) + 3

AsUsize(w) ==
  IF w >= 0 THEN w
  ELSE IF w = REGION_START THEN REGION_START_USIZE
  ELSE IF w = TAG_END THEN TAG_END_USIZE
  ELSE IF w = REG_END THEN REG_END_USIZE
  ELSE TAG_START_USIZE

\* usize / pointer arithmetic wraps
Wrap(n) == n % USIZE

\* the first mapping of the process is placed here
MmapBase == Pow2(AddrBits - 4)

Threads == 1 .. NThreads

(* ---------------------------- requests -------------------------------- *)
PageSize == Pow2(PageShift)
Floor == Pow2(FloorShift)

\* std::alloc::Layout values passed to alloc: size, power-of-two align
Layouts ==
  { [size |-> 0, align |-> 1],
    [size |-> 8, align |-> 8],
    [size |-> 8, align |-> 64],
    [size |-> Floor \div 4 + 8, align |-> 8],
    [size |-> Floor - 40, align |-> 8],
    [size |-> Floor + 8, align |-> 8],
    [size |-> 2 * Floor, align |-> 8] }

(* ------------------------- pure functions ----------------------------- *)
RECURSIVE NextPow2From(_, _)
NextPow2From(p, n) == IF p >= n THEN p ELSE NextPow2From(2 * p, n)

\* usize::next_power_of_two
next_power_of_two(n) == NextPow2From(1, n)

Max(a, b) == IF a >= b THEN a ELSE b

\* <*mut u8>::align_offset: bytes to add to p to reach a multiple of a
align_offset(p, a) == (a - (p % a)) % a

min_region_size == SizeOfRegionHeader + SizeOfRegEnd

(* ------------------------------ memory -------------------------------- *)
\* mem.maps: the mapped spans <<first address, end address>>;
\* mem.words: the non-zero words of the mapped memory, by address
NoMemory == [maps |-> {}, words |-> << >>]

WordsOf(a, n) == { Wrap(a + WordBytes * i) : i \in 0 .. (n - 1) }

Mapped(m, x) == x % WordBytes = 0 /\ \E r \in m.maps : r[1] <= x /\ x < r[2]

\* every word of the n-word object at a is mapped (and a is word aligned)
Accessible(m, a, n) == \A x \in WordsOf(a, n) : Mapped(m, x)

Load(m, a) == IF a \in DOMAIN m.words THEN m.words[a] ELSE 0

\* store the words ws at a, a + 8, ...
Store(m, a, ws) ==
  LET at == [i \in 1 .. Len(ws) |-> Wrap(a + WordBytes * (i - 1))]
      addrs == { at[i] : i \in 1 .. Len(ws) }
      new(x) == ws[CHOOSE i \in 1 .. Len(ws) : at[i] = x]
      dom == { x \in DOMAIN m.words \cup addrs : x \in addrs => new(x) # 0 }
  IN [m EXCEPT !.words = [x \in dom |-> IF x \in addrs THEN new(x) ELSE m.words[x]]]

WordFloor(a) == a - (a % WordBytes)

NoFault == [kind |-> "none", addr |-> 0]
Segv(a) == [kind |-> "segv", addr |-> a]
Panic == [kind |-> "panic", addr |-> 0]

SetMin(S) == CHOOSE x \in S : \A y \in S : x <= y
SetMax(S) == CHOOSE x \in S : \A y \in S : x >= y

\* how the kernel places mappings: each below or each above the others
Policies == {"below", "above"}

\* what one mmap call does: place the mapping, or fail
Outcomes == {"ok", "fail"}

\* libc::mmap of an anonymous private mapping: MAP_FAILED, or a fresh
\* zero-filled span next to the mappings the process already has
mmap_new_ptr(m, size, policy, outcome) ==
  IF outcome = "fail" THEN MAP_FAILED
  ELSE IF m.maps = {} THEN MmapBase
  ELSE IF policy = "below" THEN SetMin({ r[1] : r \in m.maps }) - size
  ELSE SetMax({ r[2] : r \in m.maps })

mmap_new_mem(m, size, policy, outcome) ==
  IF outcome = "fail" THEN m
  ELSE LET p == mmap_new_ptr(m, size, policy, outcome)
       IN [m EXCEPT !.maps = @ \cup {<<p, p + size>>}]

\* make_region: header at start, b"REGEND" in the six bytes before end
make_region(m, prev, next, start, end, wrapping) ==
  LET size == end - start
      endw == << WordFloor(Wrap(end - SizeOfRegEnd)), WordFloor(Wrap(end - 1)) >>
  IN IF size < 0 /\ ~wrapping THEN [mem |-> m, fault |-> Panic]
     ELSE IF ~Accessible(m, start, 4) THEN [mem |-> m, fault |-> Segv(start)]
     ELSE LET m1 == Store(m, start, <<REGION_START, prev, next, Wrap(size)>>)
              m2 == Store(m1, endw[1], <<REG_END>>)
          IN IF \E i \in 1 .. 2 : ~Mapped(m1, endw[i])
             THEN [mem |-> m1, fault |-> Segv(Wrap(end - SizeOfRegEnd))]
             ELSE [mem |-> Store(m2, endw[2], <<REG_END>>), fault |-> NoFault]

\* map_new_region: a new mapping holding one free region
map_new_region(m, alloc_size, policy, outcome, wrapping) ==
  LET ptr == mmap_new_ptr(m, alloc_size, policy, outcome)
      m1 == mmap_new_mem(m, alloc_size, policy, outcome)
      r == make_region(m1, NULL, NULL, ptr, Wrap(ptr + alloc_size), wrapping)
  IN [mem |-> r.mem, fault |-> r.fault,
      mapped |-> <<ptr, alloc_size, alloc_size, ptr>>]

(* ------------------------------ state --------------------------------- *)
VARIABLES
  mem,            \* the mapped memory, word by word
  cell,           \* static mut CONTEXT: OnceCell<Mutex<AllocContext>>
  pc,             \* where each thread is inside alloc
  req,            \* the Layout of each thread's current alloc call
  val,            \* the AllocContext a thread built in get_or_init
  sel,            \* the thread's selected_region (reg.first_free)
  slot,           \* address of the table slot the thread selected
  fault,          \* the memory fault that killed the process, if any
  wraps,          \* build without overflow checks (release profile)
  policy,         \* where the kernel places new mappings
  calls,          \* alloc calls made so far
  init_runs,      \* completed runs of init_alloc_context
  live,           \* allocations returned by alloc and not yet passed to dealloc
  ret,            \* what each thread's last completed alloc returned
  lastfree,       \* each thread's last dealloc call (kind "printing" while inside it)
  stdout          \* lines printed by dealloc

vars == <<mem, cell, pc, req, val, sel, slot, fault, wraps, policy, calls,
          init_runs, live, ret, lastfree, stdout>>

NoContext == [list |-> 0, nslots |-> 0, alloc_size |-> 0, page_size |-> 0]
NoCell == [set |-> FALSE, locked |-> FALSE, ctx |-> NoContext]
NoLayout == [size |-> 0, align |-> 1]
NoRet == [kind |-> "none", ptr |-> 0, size |-> 0, align |-> 1, tag |-> 0,
          region |-> 0, slot |-> 0]
NoFree == [kind |-> "none", ptr |-> 0, waslive |-> FALSE]

PanicStates == {"panic_reentrant_init", "panic_magic", "panic_overflow"}

Init ==
  /\ mem = NoMemory
  /\ cell = NoCell
  /\ pc = [t \in Threads |-> "idle"]
  /\ req = [t \in Threads |-> NoLayout]
  /\ val = [t \in Threads |-> NoContext]
  /\ sel = [t \in Threads |-> 0]
  /\ slot = [t \in Threads |-> 0]
  /\ fault = NoFault
  /\ wraps \in BOOLEAN
  /\ policy \in Policies
  /\ calls = 0
  /\ init_runs = 0
  /\ live = {}
  /\ ret = [t \in Threads |-> NoRet]
  /\ lastfree = [t \in Threads |-> NoFree]
  /\ stdout = 0

Running == fault.kind = "none"

(* ------------------------- init_alloc_context -------------------------- *)
RECURSIVE GrowAllocSize(_)
GrowAllocSize(a) == IF a < Floor THEN GrowAllocSize(2 * a) ELSE a

init_alloc_context(m, pol, outcome) ==
  LET page_size == PageSize
      alloc_size == GrowAllocSize(page_size)
      allocations_list == mmap_new_ptr(m, page_size, pol, outcome)
      m1 == mmap_new_mem(m, page_size, pol, outcome)
  IN IF ~Accessible(m1, allocations_list, page_size \div WordBytes)
     THEN [mem |-> m1, fault |-> Segv(allocations_list), ctx |-> NoContext]
     ELSE [mem |-> m1, fault |-> NoFault,
           ctx |-> [list |-> allocations_list,
                    nslots |-> page_size \div SizeOfMappedMemory,
                    alloc_size |-> alloc_size,
                    page_size |-> page_size]]

(* ------------------------------ alloc --------------------------------- *)
NoSlot == 0 - 1

\* the loop over context.alloc_list.list (lib.rs 212-221), from slot i on;
\* outcome[i] is what mmap does if slot i needs a mapping
RECURSIVE ScanFrom(_, _, _, _, _, _, _, _)
ScanFrom(i, m, selected, ctx, size, pol, outcome, wrapping) ==
  IF i = ctx.nslots THEN [mem |-> m, fault |-> NoFault, selected |-> selected]
  ELSE LET mapping == ctx.list + SizeOfMappedMemory * i IN
       IF Load(m, mapping) = NULL
       THEN LET r == map_new_region(m, Max(ctx.alloc_size, next_power_of_two(size)),
                                    pol, outcome[i], wrapping)
            IN IF r.fault.kind # "none"
               THEN [mem |-> r.mem, fault |-> r.fault, selected |-> selected]
               ELSE ScanFrom(i + 1, Store(r.mem, mapping, r.mapped), mapping,
                             ctx, size, pol, outcome, wrapping)
       ELSE IF AsUsize(Load(m, mapping + 16)) > size
            THEN [mem |-> m, fault |-> NoFault, selected |-> mapping]
            ELSE ScanFrom(i + 1, m, selected, ctx, size, pol, outcome, wrapping)

\* make_allocation with the usable pointer aligned like the tag, not like
\* the caller's layout
make_allocation_tag_aligned(region, layout) ==
  LET tag_ptr == Wrap(region + align_offset(region, AlignOfAllocationTag))
      alloc_start == Wrap(tag_ptr + SizeOfAllocationTag)
      allocation_ptr ==
        Wrap(alloc_start + align_offset(alloc_start, AlignOfAllocationTag))
      next_reg_start == Wrap(allocation_ptr + layout.size)
      next_region_ptr ==
        Wrap(next_reg_start + align_offset(next_reg_start, AlignOfRegionHeader))
  IN [start_ptr |-> region, tag_ptr |-> tag_ptr,
      allocation_ptr |-> allocation_ptr, next_region_ptr |-> next_region_ptr]

\* make_allocation: where the tag, the usable bytes and the next region go
make_allocation(region, layout) ==
  LET tag_ptr == Wrap(region + align_offset(region, AlignOfAllocationTag))
      alloc_start == Wrap(tag_ptr + SizeOfAllocationTag)
      allocation_ptr == Wrap(alloc_start + align_offset(alloc_start, layout.align))
      next_reg_start == Wrap(allocation_ptr + layout.size)
      next_region_ptr ==
        Wrap(next_reg_start + align_offset(next_reg_start, AlignOfRegionHeader))
  IN [start_ptr |-> region, tag_ptr |-> tag_ptr,
      allocation_ptr |-> allocation_ptr, next_region_ptr |-> next_region_ptr]

\* lib.rs 229-249 on the memory m: read the header, write the tag, then
\* either give the tag the whole region or write the next region
Carve(m, region, layout, wrapping) ==
  IF ~Accessible(m, region, 4)
  THEN [mem |-> m, fault |-> IF region = NULL THEN Segv(NULL) ELSE Segv(region),
        pc |-> "idle", al |-> make_allocation(region, layout)]
  ELSE
  LET magic == Load(m, region)
      prev == Load(m, Wrap(region + 8))
      next == Load(m, Wrap(region + 16))
      region_size == Load(m, Wrap(region + 24))
      al == make_allocation(region, layout)
      size == al.next_region_ptr - al.tag_ptr
  IN IF magic # REGION_START
     THEN [mem |-> m, fault |-> Panic, pc |-> "panic_magic", al |-> al]
     ELSE IF size < 0 /\ ~wrapping
     THEN [mem |-> m, fault |-> Panic, pc |-> "panic_overflow", al |-> al]
     ELSE IF ~Accessible(m, al.tag_ptr, 4)
     THEN [mem |-> m, fault |-> Segv(al.tag_ptr), pc |-> "idle", al |-> al]
     ELSE
     LET m1 == Store(m, al.tag_ptr, <<REGION_START, prev, Wrap(size), TAG_END>>)
         used == al.next_region_ptr - al.start_ptr
     IN IF used < 0 /\ ~wrapping
        THEN [mem |-> m1, fault |-> Panic, pc |-> "panic_overflow", al |-> al]
        ELSE IF Wrap(used) < min_region_size
        THEN [mem |-> Store(m1, Wrap(al.tag_ptr + 16), <<region_size>>),
              fault |-> NoFault, pc |-> "idle", al |-> al]
        ELSE LET r == make_region(m1, prev, next, al.next_region_ptr,
                                  Wrap(region + AsUsize(region_size)), wrapping)
             IN [mem |-> r.mem, fault |-> r.fault,
                 pc |-> IF r.fault.kind = "panic" THEN "panic_overflow" ELSE "idle",
                 al |-> al]

\* MutexGuard::drop, also run when a panic unwinds through alloc
Unlocked(c) == [c EXCEPT !.locked = FALSE]

\* alloc is entered; CONTEXT.get_or_init looks at the cell (OnceCell::get)
AllocGet(t, layout) ==
  /\ Running
  /\ pc[t] = "idle"
  /\ lastfree[t].kind # "printing"
  /\ calls < MaxCalls
  /\ calls' = calls + 1
  /\ req' = [req EXCEPT ![t] = layout]
  /\ pc' = [pc EXCEPT ![t] = IF cell.set THEN "lock" ELSE "init"]
  /\ UNCHANGED <<mem, cell, val, sel, slot, fault, wraps, policy, init_runs, live,
                 ret, lastfree, stdout>>

\* the closure of get_or_init: Mutex::new(init_alloc_context())
AllocInit(t) ==
  /\ Running
  /\ pc[t] = "init"
  /\ \E outcome \in Outcomes :
       LET r == init_alloc_context(mem, policy, outcome) IN
       /\ mem' = r.mem
       /\ fault' = r.fault
       /\ IF r.fault.kind = "none"
          THEN /\ val' = [val EXCEPT ![t] = r.ctx]
               /\ pc' = [pc EXCEPT ![t] = "setchk"]
               /\ init_runs' = init_runs + 1
          ELSE UNCHANGED <<val, pc, init_runs>>
  /\ UNCHANGED <<cell, req, sel, slot, wraps, policy, calls, live, ret, lastfree, stdout>>

\* OnceCell::set looks at the slot; get_or_init asserts that set succeeds
AllocSetCheck(t) ==
  /\ Running
  /\ pc[t] = "setchk"
  /\ pc' = [pc EXCEPT ![t] = IF cell.set THEN "panic_reentrant_init" ELSE "setwr"]
  /\ UNCHANGED <<mem, cell, req, val, sel, slot, fault, wraps, policy, calls,
                 init_runs, live, ret, lastfree, stdout>>

\* OnceCell::set writes Some(Mutex::new(context)) into the slot
AllocSetWrite(t) ==
  /\ Running
  /\ pc[t] = "setwr"
  /\ cell' = [set |-> TRUE, locked |-> FALSE, ctx |-> val[t]]
  /\ pc' = [pc EXCEPT ![t] = "lock"]
  /\ UNCHANGED <<mem, req, val, sel, slot, fault, wraps, policy, calls, init_runs,
                 live, ret, lastfree, stdout>>

\* spin::Mutex::lock on the mutex in the cell
AllocLock(t) ==
  /\ Running
  /\ pc[t] = "lock"
  /\ ~cell.locked
  /\ cell' = [cell EXCEPT !.locked = TRUE]
  /\ pc' = [pc EXCEPT ![t] = "scan"]
  /\ UNCHANGED <<mem, req, val, sel, slot, fault, wraps, policy, calls, init_runs,
                 live, ret, lastfree, stdout>>

\* lib.rs 208-227: pick a mapping, or return null
AllocScan(t) ==
  /\ Running
  /\ pc[t] = "scan"
  /\ \E outcome \in [0 .. (cell.ctx.nslots - 1) -> Outcomes] :
       LET r == ScanFrom(0, mem, NoSlot, cell.ctx, req[t].size, policy, outcome, wraps) IN
       /\ mem' = r.mem
       /\ IF r.fault.kind = "segv"
          THEN /\ fault' = r.fault
               /\ UNCHANGED <<cell, pc, sel, slot, ret>>
          ELSE IF r.fault.kind = "panic"
          THEN /\ pc' = [pc EXCEPT ![t] = "panic_overflow"]
               /\ cell' = Unlocked(cell)
               /\ UNCHANGED <<fault, sel, slot, ret>>
          ELSE IF r.selected = NoSlot
          THEN /\ ret' = [ret EXCEPT ![t] =
                           [kind |-> "null", ptr |-> NULL, size |-> req[t].size,
                            align |-> req[t].align, tag |-> 0, region |-> 0,
                            slot |-> NoSlot]]
               /\ pc' = [pc EXCEPT ![t] = "idle"]
               /\ cell' = Unlocked(cell)
               /\ UNCHANGED <<fault, sel, slot>>
          ELSE /\ slot' = [slot EXCEPT ![t] = r.selected]
               /\ sel' = [sel EXCEPT ![t] = AsUsize(Load(r.mem, r.selected + 24))]
               /\ pc' = [pc EXCEPT ![t] = "carve"]
               /\ UNCHANGED <<cell, fault, ret>>
  /\ UNCHANGED <<req, val, wraps, policy, calls, init_runs, live, lastfree, stdout>>

\* lib.rs 229-250: carve the allocation out of the selected region
AllocCarve(t) ==
  /\ Running
  /\ pc[t] = "carve"
  /\ LET r == Carve(mem, sel[t], req[t], wraps) IN
     /\ mem' = r.mem
     /\ IF r.fault.kind = "segv"
        THEN /\ fault' = r.fault
             /\ UNCHANGED <<cell, pc, ret, live>>
        ELSE IF r.fault.kind = "panic"
        THEN /\ pc' = [pc EXCEPT ![t] = r.pc]
             /\ cell' = Unlocked(cell)
             /\ UNCHANGED <<fault, ret, live>>
        ELSE LET a == [kind |-> "ptr", ptr |-> r.al.allocation_ptr,
                       size |-> req[t].size, align |-> req[t].align,
                       tag |-> r.al.tag_ptr, region |-> r.al.start_ptr,
                       slot |-> slot[t]]
             IN /\ ret' = [ret EXCEPT ![t] = a]
                /\ live' = live \cup {a}
                /\ pc' = [pc EXCEPT ![t] = "idle"]
                /\ cell' = Unlocked(cell)
                /\ UNCHANGED fault
  /\ UNCHANGED <<req, val, sel, slot, wraps, policy, calls, init_runs, lastfree, stdout>>

(* ----------------------------- dealloc -------------------------------- *)
LivePtrs == { a.ptr : a \in live }

\* a pointer alloc never returns: inside the first table page
WildPtr == MmapBase + 1

\* pointers a caller may pass: live ones, ones returned before, a wild one
FreeCandidates ==
  LivePtrs \cup { ret[t].ptr : t \in { u \in Threads : ret[u].kind = "ptr" } }
           \cup {WildPtr}

\* the line buffer of std's stdout (LineWriter: 1024 bytes, align 1, far below
\* alloc_size), allocated by the first print of the process
LineBufLayout == [size |-> WordBytes, align |-> 1]

\* dealloc prints a line and returns; ptr and layout are not used.  The
\* stdout buffer exists already: the process has printed before, which takes
\* an earlier alloc call.
Dealloc(t, ptr) ==
  /\ Running
  /\ pc[t] = "idle"
  /\ lastfree[t].kind # "printing"
  /\ stdout > 0 \/ cell.set
  /\ stdout < MaxPrints
  /\ ptr \in FreeCandidates
  /\ stdout' = stdout + 1
  /\ lastfree' = [lastfree EXCEPT ![t] =
                    [kind |-> "returned", ptr |-> ptr, waslive |-> ptr \in LivePtrs]]
  /\ live' = { a \in live : a.ptr # ptr }
  /\ UNCHANGED <<mem, cell, pc, req, val, sel, slot, fault, wraps, policy, calls,
                 init_runs, ret>>

\* dealloc when println! is the first print of the process: std creates the
\* stdout buffer through the global allocator, so the thread enters alloc
\* from inside dealloc
DeallocFirstPrint(t, ptr) ==
  /\ Running
  /\ pc[t] = "idle"
  /\ stdout = 0
  /\ \A u \in Threads : lastfree[u].kind # "printing"
  /\ ptr \in FreeCandidates
  /\ calls < MaxCalls
  /\ calls' = calls + 1
  /\ lastfree' = [lastfree EXCEPT ![t] =
                    [kind |-> "printing", ptr |-> ptr, waslive |-> ptr \in LivePtrs]]
  /\ live' = { a \in live : a.ptr # ptr }
  /\ req' = [req EXCEPT ![t] = LineBufLayout]
  /\ pc' = [pc EXCEPT ![t] = IF cell.set THEN "lock" ELSE "init"]
  /\ UNCHANGED <<mem, cell, val, sel, slot, fault, wraps, policy, init_runs,
                 ret, stdout>>

\* the alloc call made by println! has returned: with the buffer the line is
\* printed and dealloc returns; on null std's handle_alloc_error aborts
DeallocPrinted(t) ==
  /\ Running
  /\ pc[t] = "idle"
  /\ lastfree[t].kind = "printing"
  /\ IF ret[t].kind = "null"
     THEN /\ fault' = [kind |-> "abort", addr |-> 0]
          /\ UNCHANGED <<lastfree, stdout>>
     ELSE /\ stdout' = stdout + 1
          /\ lastfree' = [lastfree EXCEPT ![t].kind = "returned"]
          /\ UNCHANGED fault
  /\ UNCHANGED <<mem, cell, pc, req, val, sel, slot, wraps, policy, calls,
                 init_runs, live, ret>>

Main == 1

\* one thread calling alloc and dealloc
Next ==
  \/ \E layout \in Layouts : AllocGet(Main, layout)
  \/ AllocInit(Main)
  \/ AllocSetCheck(Main)
  \/ AllocSetWrite(Main)
  \/ AllocLock(Main)
  \/ AllocScan(Main)
  \/ AllocCarve(Main)
  \/ \E ptr \in FreeCandidates : Dealloc(Main, ptr)
  \/ \E ptr \in FreeCandidates : DeallocFirstPrint(Main, ptr)
  \/ DeallocPrinted(Main)

Spec == Init /\ [][Next]_vars

\* the layouts used when several threads call alloc at once
ConcLayouts == { l \in Layouts : l.size = 8 /\ l.align = 8 }

\* NThreads threads calling alloc and dealloc concurrently
NextConc ==
  \/ \E t \in Threads, layout \in ConcLayouts :
       calls < MaxConcCalls /\ AllocGet(t, layout)
  \/ \E t \in Threads : AllocInit(t)
  \/ \E t \in Threads : AllocSetCheck(t)
  \/ \E t \in Threads : AllocSetWrite(t)
  \/ \E t \in Threads : AllocLock(t)
  \/ \E t \in Threads : AllocScan(t)
  \/ \E t \in Threads : AllocCarve(t)
  \/ \E t \in Threads, ptr \in FreeCandidates : Dealloc(t, ptr)
  \/ \E t \in Threads, ptr \in FreeCandidates :
       calls < MaxConcCalls /\ DeallocFirstPrint(t, ptr)
  \/ \E t \in Threads : DeallocPrinted(t)

SpecConc == Init /\ [][NextConc]_vars

TypeOK ==
  /\ pc \in [Threads -> {"idle", "init", "setchk", "setwr", "lock", "scan", "carve"}
                         \cup PanicStates]
  /\ fault.kind \in {"none", "segv", "abort"}
  /\ calls \in 0 .. MaxCalls

(* ------------------- the allocator's data structures ------------------ *)
\* the table slots of the context that hold a mapping (start is not null)
Blocks ==
  IF ~cell.set THEN {}
  ELSE { cell.ctx.list + SizeOfMappedMemory * i : i \in 0 .. (cell.ctx.nslots - 1) }
       \cap { b \in DOMAIN mem.words : mem.words[b] # NULL }

BlockStart(b) == AsUsize(Load(mem, b))
BlockLen(b) == AsUsize(Load(mem, b + 8))
BlockLargest(b) == AsUsize(Load(mem, b + 16))
BlockFirstFree(b) == AsUsize(Load(mem, b + 24))

\* the longest free list that is followed
MaxChain == 4

\* the regions on the free list that starts at h: <<address, size>> of every
\* header that carries the REGION_START magic, following next
RECURSIVE FreeChain(_, _)
FreeChain(h, fuel) ==
  IF fuel = 0 \/ h = NULL \/ ~Accessible(mem, h, 4) THEN {}
  ELSE IF Load(mem, h) # REGION_START THEN {}
  ELSE {<<h, AsUsize(Load(mem, h + 24))>>}
       \cup FreeChain(AsUsize(Load(mem, h + 16)), fuel - 1)

FreeRegions(b) == FreeChain(BlockFirstFree(b), MaxChain)

\* the byte spans [a1, a1 + n1) and [a2, a2 + n2) have a byte in common
Overlap(a1, n1, a2, n2) == n1 > 0 /\ n2 > 0 /\ a1 < a2 + n2 /\ a2 < a1 + n1

Quiet == Running /\ \A t \in Threads : pc[t] = "idle"

(* ------------------------------- C1 ----------------------------------- *)
\* C1: the size bytes at a pointer returned by alloc overlap neither the
\* usable bytes of another live allocation nor a Free Region on the free
\* list of any Mapped Block.
C1_NoOverlap ==
  \A a \in live :
    /\ \A o \in live \ {a} : ~Overlap(a.ptr, a.size, o.ptr, o.size)
    /\ \A b \in Blocks : \A fr \in FreeRegions(b) :
         ~Overlap(a.ptr, a.size, fr[1], fr[2])

(* ------------------------------- C2 ----------------------------------- *)
\* C2: every non-null pointer returned by alloc is a multiple of the
\* alignment of the request, also when that alignment is larger than the
\* alignment of the AllocationTag.
C2_Aligned ==
  /\ \A t \in Threads : ret[t].kind = "ptr" => ret[t].ptr % ret[t].align = 0
  /\ \A a \in live : a.ptr % a.align = 0

\* an allocation with an alignment above the tag's has been returned
C2_Witness ==
  \E t \in Threads : /\ ret[t].kind = "ptr"
                       /\ ret[t].align > AlignOfAllocationTag
                       /\ ret[t].ptr # NULL

(* ------------------------------- C3 ----------------------------------- *)
\* C3: under concurrent first calls of alloc the context is built exactly
\* once: init_alloc_context runs once, no thread fails in get_or_init, and
\* the cell, once set, keeps its context and its mutex.
C3_InitOnce ==
  /\ init_runs <= 1
  /\ \A t \in Threads : pc[t] # "panic_reentrant_init"

(* ------------------------------- C4 ----------------------------------- *)
\* the threads between Mutex::lock and the drop of the guard, where alloc
\* reads and writes the table, the mappings, the headers and the tags
InCritical == { t \in Threads : pc[t] \in {"scan", "carve"} }

\* C4: at most one thread at a time is inside the part of alloc that reads
\* or writes the allocator state (the part run under the guard of the lock).
C4_MutualExclusion == Cardinality(InCritical) <= 1

(* ------------------------------- C5 ----------------------------------- *)
\* C5: when mmap fails while alloc looks for a new mapping, alloc does not
\* store through the failure value MAP_FAILED and does not abort: no thread
\* inside the table scan is stopped by a fault at MAP_FAILED.
C5_NullOnMapFailure ==
  ~(/\ fault.kind = "segv"
    /\ fault.addr = MAP_FAILED
    /\ \E t \in Threads : pc[t] = "scan")

(* ------------------------------- C6 ----------------------------------- *)
\* C6: once every allocation handed out has been passed to dealloc, every
\* Mapped Block holds exactly one Free Region, from start to start + len.
C6_FullCoalesce ==
  (Quiet /\ live = {}) =>
     \A b \in Blocks : FreeRegions(b) = {<<BlockStart(b), BlockLen(b)>>}

(* ------------------------------- C7 ----------------------------------- *)
\* the mapping whose table slot is b holds the bytes [lo, hi)
Holds(b, lo, hi) == BlockStart(b) <= lo /\ hi <= BlockStart(b) + BlockLen(b)

\* C7: a completed alloc call for more than alloc_size (the growth
\* increment) bytes returned a pointer, out of a mapping of
\* next_power_of_two(size) bytes that holds the tag, the padding and the
\* size usable bytes.
C7_LargeRequest ==
  \A t \in Threads :
    (Running /\ cell.set /\ ret[t].kind # "none" /\ ret[t].size > cell.ctx.alloc_size)
    => /\ ret[t].kind = "ptr"
       /\ BlockLen(ret[t].slot) = next_power_of_two(ret[t].size)
       /\ Holds(ret[t].slot, ret[t].tag, ret[t].ptr + ret[t].size)

(* ------------------------------- C8 ----------------------------------- *)
WordCeil(a) == a + align_offset(a, WordBytes)

\* the live allocations carved out of the mapping of slot b
LiveIn(b) == { a \in live : a.slot = b }

\* allocations of size bytes each, all inside the mapping of slot b, have
\* used it up: what is left behind the last of them cannot take a tag and
\* size more bytes
UsedUp(b, size) ==
  /\ LiveIn(b) # {}
  /\ \A a \in LiveIn(b) : a.size = size /\ Holds(b, a.tag, a.ptr + a.size)
  /\ LET top == SetMax({ WordCeil(a.ptr + a.size) : a \in LiveIn(b) })
     IN BlockStart(b) + BlockLen(b) - top < SizeOfAllocationTag + size

\* C8: when allocations of one size have used up a mapping, the next alloc
\* of that size is not served from that mapping (and does not return null).
C8_SecondBlock ==
  \A t \in Threads :
    /\ pc[t] = "carve" => ~UsedUp(slot[t], req[t].size)
    /\ (ret[t].kind = "null" /\ Running) =>
          ~\E b \in Blocks : UsedUp(b, ret[t].size)

(* ------------------------------- C9 ----------------------------------- *)
\* C9: a dealloc call with a pointer that is not live never returns
\* normally.
C9_FatalOnMisuse ==
  \A t \in Threads : lastfree[t].kind = "returned" => lastfree[t].waslive

(* ------------------------------- C10 ---------------------------------- *)
\* the first table slot that holds no mapping
FirstUnused ==
  SetMin({ cell.ctx.list + SizeOfMappedMemory * i : i \in 0 .. (cell.ctx.nslots - 1) }
         \ Blocks)

\* C10: a step of alloc maps memory only if no mapping of the table has a
\* largest above the requested size, and then makes exactly one mapping,
\* in the first unused slot; the other unused slots stay unused.
C10_OneNewBlock ==
  [][ (cell.set /\ cell' = cell /\ Blocks' # Blocks) =>
        /\ \E t \in Threads :
             /\ pc[t] = "scan"
             /\ \A b \in Blocks : ~(BlockLargest(b) > req[t].size)
        /\ Blocks' = Blocks \cup {FirstUnused} ]_vars

(* ------------------------------- C11 ---------------------------------- *)
\* the end of the region whose header is at h, as its size field gives it
RegionEnd(h) == h + AsUsize(Load(mem, h + 24))

\* C11: when alloc has selected a mapping, the region at the head of its
\* free list takes the request: the tag, the padding and the size usable
\* bytes lie inside [region, region + size of the region), and the address
\* of the next region does not pass the end of the region.
C11_HeadFits ==
  \A t \in Threads :
    (Running /\ pc[t] = "carve" /\ Accessible(mem, sel[t], 4)) =>
      LET al == make_allocation(sel[t], req[t]) IN
      /\ sel[t] <= al.tag_ptr
      /\ al.allocation_ptr + req[t].size <= RegionEnd(sel[t])
      /\ al.next_region_ptr <= RegionEnd(sel[t])

(* ------------------------------- C12 ---------------------------------- *)
LiveTags == { a.tag : a \in live }

\* C12: after every alloc call the first_free of each mapping is null or
\* the address of a Free Region; it never addresses the AllocationTag of a
\* live allocation.
C12_HeadMoved ==
  Quiet => \A b \in Blocks :
             \/ BlockFirstFree(b) = NULL
             \/ /\ Load(mem, BlockFirstFree(b)) = REGION_START
                /\ BlockFirstFree(b) \notin LiveTags

(* ------------------------------- C13 ---------------------------------- *)
\* the most regions and tags looked at in one mapping
MaxTiles == 6

\* the tags of the live allocations and the region headers that follow one
\* another from x on end exactly at end: a tag is followed by what is at
\* tag + tag.size, a region header by what is at header + header.size
RECURSIVE TilesFrom(_, _, _)
TilesFrom(x, end, fuel) ==
  IF x = end THEN TRUE
  ELSE IF x > end \/ fuel = 0 \/ ~Accessible(mem, x, 4) THEN FALSE
  ELSE IF x \in LiveTags
       THEN AsUsize(Load(mem, x + 16)) > 0
            /\ TilesFrom(x + AsUsize(Load(mem, x + 16)), end, fuel - 1)
  ELSE IF Load(mem, x) = REGION_START
       THEN AsUsize(Load(mem, x + 24)) > 0
            /\ TilesFrom(x + AsUsize(Load(mem, x + 24)), end, fuel - 1)
  ELSE FALSE

\* C13: in every state the Free Regions and the AllocationTags of a mapping
\* tile it: they follow one another from start to start + len without gap
\* or overlap.
C13_Tiling ==
  Running => \A b \in Blocks :
               TilesFrom(BlockStart(b), BlockStart(b) + BlockLen(b), MaxTiles)

(* ------------------------------- C14 ---------------------------------- *)
\* C14: an alloc call that carves a region writes a next region exactly if
\* the bytes from the next region's address to the end of the carved region
\* are at least min_region_size; if they are fewer it writes no region and
\* the size of the tag becomes the size of the carved region.
C14_SplitOrFold ==
  [][ \A t \in Threads :
        (pc[t] = "carve" /\ pc'[t] = "idle" /\ Running') =>
          LET al == make_allocation(sel[t], req[t])
              rest == RegionEnd(sel[t]) - al.next_region_ptr
          IN IF rest >= min_region_size
             THEN /\ Load(mem', al.next_region_ptr) = REGION_START
                  /\ AsUsize(Load(mem', al.next_region_ptr + 24)) = rest
             ELSE /\ Load(mem', al.tag_ptr + 16) = Load(mem, sel[t] + 24)
                  /\ \A i \in 0 .. 3 :
                       Load(mem', al.next_region_ptr + WordBytes * i) =
                       Load(mem, al.next_region_ptr + WordBytes * i) ]_vars

(* ------------------------------- C15 ---------------------------------- *)
\* C15: no AllocationTag of a live allocation begins with the REGION_START
\* magic of a region header, so the magic tells the two apart.
C15_MagicTellsApart ==
  \A a \in live : Load(mem, a.tag) # REGION_START

(* ------------------------------- C16 ---------------------------------- *)
\* C16: in every state the largest of a mapping is at least the size of
\* every Free Region on the free list of the mapping.
C16_HintUpperBound ==
  Running => \A b \in Blocks : \A fr \in FreeRegions(b) : BlockLargest(b) >= fr[2]

(* ------------------------------- C17 ---------------------------------- *)
TagWords(m, tag) == [i \in 0 .. 3 |-> Load(m, tag + WordBytes * i)]

\* C17: the usable pointer of an allocation is at or behind the end of its
\* AllocationTag, and the four fields of the tag keep their values from
\* step to step while the allocation is live.
C17_TagKept ==
  [][ /\ \A a \in live' : a.ptr >= a.tag + SizeOfAllocationTag
      /\ \A a \in live \cap live' : TagWords(mem', a.tag) = TagWords(mem, a.tag) ]_vars

(* ------------------------------- C18 ---------------------------------- *)
AllSlots ==
  { cell.ctx.list + SizeOfMappedMemory * i : i \in 0 .. (cell.ctx.nslots - 1) }

\* C18: a table scan that finds every slot of the table page holding a
\* mapping and none with largest above the requested size does not end
\* alloc with null (it goes on into a new table page).
C18_TableGrows ==
  [][ \A t \in Threads :
        (/\ pc[t] = "scan"
         /\ Blocks = AllSlots
         /\ \A b \in Blocks : ~(BlockLargest(b) > req[t].size))
        => ~(pc'[t] = "idle" /\ ret'[t].kind = "null") ]_vars

(* ------------------------------- C19 ---------------------------------- *)
\* C19: a call of alloc that has taken the lock is not stopped before it
\* returns (by a fault or a panic), and the lock is free whenever no thread
\* is between Mutex::lock and the return of alloc.
C19_ReturnsUnlocked ==
  /\ \A t \in Threads : pc[t] \in {"scan", "carve"} => Running
  /\ \A t \in Threads : pc[t] \notin {"panic_magic", "panic_overflow"}
  /\ (cell.set /\ InCritical = {}) => ~cell.locked

(* ------------------------------- C20 ---------------------------------- *)
\* C20: no step of a dealloc call, from its entry to its return (the step
\* that prints the line included), changes the mapped memory, that is table
\* slots, mappings' fields, region headers and tags, nor the cell with its
\* lock; the Free Regions stay the same.
C20_DeallocFrame ==
  [][ (\/ stdout' # stdout
       \/ lastfree[Main].kind = "printing"
       \/ lastfree'[Main].kind = "printing") =>
        /\ mem' = mem
        /\ cell' = cell
        /\ \A b \in Blocks : FreeRegions(b)' = FreeRegions(b) ]_vars

====
